---- MODULE Spec2Model ----
(***************************************************************************)
(* tap-exchangerate: the date-range partitioning, boundary de-duplication  *)
(* and streaming re-assembly of src/tap_exchangerate/__init__.py.          *)
(*                                                                         *)
(* A date string "YYYY-MM-DD" is the tuple <<year, month, day>>; a         *)
(* datetime.date / datetime.datetime at midnight is its proleptic          *)
(* Gregorian ordinal (date.toordinal()), so that timedelta arithmetic is   *)
(* integer arithmetic and strptime / strftime are real conversions.        *)
(***************************************************************************)
EXTENDS Integers, Sequences, FiniteSets, TLC

(***************************************************************************)
(* Bounds of the model and constants of the program.                       *)
(***************************************************************************)
\* spans 0..MaxSpan days are all explored (three windows need more than 730)
MaxSpan == 740
\* generate_item_pairs alone: input length and target count
MaxLen == 4
MaxN == 4
\* generate_date_range alone: the end is at most this many days from the start
MaxRangeSpan == 20
\* the literal of the assertion in get_exr_366_days
MaxDaysPerRequest == 365
\* the literal of the n_cuts formula in get_exr_timeseries
DaysPerCut == 365

\* the shortest span whose stride (366) divides it: 365 * 366 days
LongSpan == DaysPerCut * (DaysPerCut + 1)

StartDates == {<<2023, 1, 1>>}
Spans == (0 .. MaxSpan) \cup {LongSpan}
\* how far from the start date the remote service has rates
RatesHorizon == MaxSpan
Items == {0, 1, 2}
\* start dates next to a year's end and next to a leap day
RangeStarts == {<<2023, 1, 1>>, <<2023, 12, 30>>, <<2024, 2, 28>>}
Currencies == <<"EUR", "USD">>

(***************************************************************************)
(* Calendar arithmetic of the datetime module, used by strptime, strftime  *)
(* and date subtraction.                                                   *)
(***************************************************************************)
IsLeap(y) == (y % 4 = 0) /\ ((y % 100 # 0) \/ (y % 400 = 0))

DaysBeforeYear(y) ==
    (y - 1) * 365 + ((y - 1) \div 4) - ((y - 1) \div 100) + ((y - 1) \div 400)

DaysBeforeMonth(y, m) ==
    <<0, 31, 59, 90, 120, 151, 181, 212, 243, 273, 304, 334>>[m]
        + (IF m > 2 /\ IsLeap(y) THEN 1 ELSE 0)

\* datetime.strptime(s, "%Y-%m-%d"): the date string to the date value
strptime(s) == DaysBeforeYear(s[1]) + DaysBeforeMonth(s[1], s[2]) + s[3]

\* date.strftime("%Y-%m-%d"): the date value to the date string
strftime(o) ==
    LET n0   == o - 1
        n400 == n0 \div 146097
        r400 == n0 % 146097
        n100 == r400 \div 36524
        r100 == r400 % 36524
        n4   == r100 \div 1461
        r4   == r100 % 1461
        n1   == r4 \div 365
        r1   == r4 % 365
        y    == n400 * 400 + n100 * 100 + n4 * 4 + n1 + 1
    IN  IF n1 = 4 \/ n100 = 4
        THEN <<y - 1, 12, 31>>
        ELSE LET m0 == (r1 + 50) \div 32
                 m  == IF DaysBeforeMonth(y, m0) > r1 THEN m0 - 1 ELSE m0
             IN  <<y, m, r1 - DaysBeforeMonth(y, m) + 1>>

\* as_date on a str (every caller here passes date strings): strptime
as_date(date_like) == strptime(date_like)

Abs(x) == IF x < 0 THEN -x ELSE x

\* math.ceil(a / b) for a >= 0, b > 0
ceil(a, b) == (a + b - 1) \div b

\* the end date is left out: range(0, (end - start).days, step)
generate_date_range_exclusive(start, end) ==
    LET s    == as_date(start)
        e    == as_date(end)
        step == IF s <= e THEN 1 ELSE -1
        cnt  == IF step = 1 THEN e - s ELSE s - e
    IN  [i \in 1 .. cnt |-> strftime(s + (i - 1) * step)]

(***************************************************************************)
(* generate_date_range with the default format: the date strings from      *)
(* start to end inclusive, ascending or descending.                        *)
(***************************************************************************)
generate_date_range(start, end) ==
    LET s    == as_date(start)
        e    == as_date(end)
        step == IF s <= e THEN 1 ELSE -1
        \* len(range(0, (e - s) + step, step))
        cnt  == IF step = 1 THEN (e - s) + 1 ELSE (s - e) + 1
    IN  [i \in 1 .. cnt |-> strftime(s + (i - 1) * step)]

(***************************************************************************)
(* generate_item_pairs.  The result is what the generator yields and the   *)
(* exception that ends it, if any.                                         *)
(***************************************************************************)
Returned(ps) == [raised |-> "none", pairs |-> ps]
Raised(exc) == [raised |-> exc, pairs |-> <<>>]

\* the samples start at the second item: all_items[1::step]
SliceFromSecond(all_items, step) ==
    [k \in 1 .. ceil(Len(all_items) - 1, step) |-> all_items[2 + (k - 1) * step]]

\* all_items[::step], step >= 1
Slice(all_items, step) ==
    [k \in 1 .. ceil(Len(all_items), step) |-> all_items[1 + (k - 1) * step]]

\* x in items: membership by value
Contains(items, x) == \E i \in 1 .. Len(items) : items[i] = x

\* zip(items, items[1:])
ZipWithNext(items) ==
    IF Len(items) < 2 THEN <<>>
    ELSE [i \in 1 .. Len(items) - 1 |-> <<items[i], items[i + 1]>>]

\* narrowed_items + ([all_items[-1]] if all_items[-1] not in narrowed_items else [])
WithFinal(all_items, narrowed_items) ==
    IF Contains(narrowed_items, all_items[Len(all_items)])
    THEN narrowed_items
    ELSE narrowed_items \o <<all_items[Len(all_items)]>>

generate_item_pairs(iterator, n) ==
    IF n = 0 THEN Returned(<<>>)
    ELSE LET all_items == iterator
             step      == ceil(Len(all_items), n)
         IN  IF step = 0
             THEN Raised("ValueError")    \* slice step cannot be zero
             ELSE Returned(ZipWithNext(WithFinal(all_items, Slice(all_items, step))))

generate_date_pairs(start, end, n) ==
    generate_item_pairs(generate_date_range(start, end), n)

(***************************************************************************)
(* The remote time-series endpoint and the helpers of get_exr_timeseries.  *)
(***************************************************************************)
\* the shift is applied to the last window as well
DayOffsetEveryWindow(is_last_pair) == 1

\* the shift is never applied
DayOffsetNoWindow(is_last_pair) == 0

\* day_offset = 0 if is_last_pair else 1
DayOffset(is_last_pair) == IF is_last_pair THEN 0 ELSE 1

\* the assertion bounds the distance between the two dates in either order
WindowFitsEitherOrder(from, to) ==
    Abs(as_date(to) - as_date(from)) <= MaxDaysPerRequest

\* the condition asserted at the top of get_exr_366_days
WindowFits(from, to) == as_date(to) - as_date(from) <= MaxDaysPerRequest

\* n_cuts = ceil(abs((as_date(end_date) - as_date(start_date)).days) / 365)
NCuts(start, end) == ceil(Abs(as_date(end) - as_date(start)), DaysPerCut)

\* The dates a successful response carries.  The service answers with the
\* rates of the first and of the last date it was asked for, when it has
\* them: it holds rates for the dates within RatesHorizon days of start.
ResponseDates(request, start) ==
    LET asked == IF request[1] = request[2]
                 THEN <<request[1]>> ELSE <<request[1], request[2]>>
        HasRates(d) == Abs(strptime(d) - strptime(start)) <= RatesHorizon
    IN  SelectSeq(asked, HasRates)

\* the rows of one response in the order of the two loops over json_resp["rates"]:
\* every currency of the first date, then every currency of the next
ResponseRows(request, start) ==
    LET ds == ResponseDates(request, start)
        nc == Len(Currencies)
    IN  [k \in 1 .. Len(ds) * nc |->
            <<ds[((k - 1) \div nc) + 1], Currencies[((k - 1) % nc) + 1]>>]

(***************************************************************************)
(* State.                                                                  *)
(*   start_date, end_date  the arguments of get_exr_timeseries             *)
(*   pc          where the generator get_exr_timeseries stands             *)
(*   pulling     the consumer is inside next() on the generator            *)
(*   it          what the iterator of zip_is_last has not yet produced     *)
(*   next_value  the lookahead element of zip_is_last                      *)
(*   is_last_pair  the flag zip_is_last yielded with the current pair      *)
(*   requests    the (start_date, end_date) of every GET issued, in order  *)
(*   rows        the rows of the current response not yet yielded          *)
(*   output      the rows the consumer has received, in order              *)
(*   error       the exception the consumer has received, or "none"        *)
(*   arg_items, arg_n, ret, called                                         *)
(*               a call of generate_item_pairs on its own                  *)
(*   iterable, zpc, current_value, tagged, got, stops                      *)
(*               zip_is_last on its own (with it and next_value): its      *)
(*               argument, where the generator stands, its current         *)
(*               element, the (element, is_last) pairs it has yielded, how *)
(*               many elements next(it) has returned and how often next(it)*)
(*               has raised StopIteration                                  *)
(*   range_start, range_end, range_out, ranged                                 *)
(*               a call of generate_date_range on its own                  *)
(***************************************************************************)
VARIABLES start_date, end_date, pc, pulling, it, next_value, is_last_pair,
          requests, rows, output, error, arg_items, arg_n, ret, called,
          iterable, zpc, current_value, tagged, got, stops,
          range_start, range_end, range_out, ranged

vars == <<start_date, end_date, pc, pulling, it, next_value, is_last_pair,
          requests, rows, output, error, arg_items, arg_n, ret, called,
          iterable, zpc, current_value, tagged, got, stops,
          range_start, range_end, range_out, ranged>>

orch_vars == <<start_date, end_date, pc, pulling, it, next_value, is_last_pair,
               requests, rows, output, error>>
pair_vars == <<arg_items, arg_n, ret, called>>
zip_vars == <<iterable, zpc, current_value, tagged, got, stops>>
range_vars == <<range_start, range_end, range_out, ranged>>

NoValue == <<>>

OrchIdle ==
    /\ pc = "created" /\ pulling = FALSE
    /\ it = <<>> /\ next_value = NoValue /\ is_last_pair = FALSE
    /\ requests = <<>> /\ rows = <<>> /\ output = <<>> /\ error = "none"

PairIdle ==
    /\ arg_items = <<>> /\ arg_n = 0 /\ ret = Returned(<<>>) /\ called = FALSE

ZipIdle ==
    /\ iterable = <<>> /\ zpc = "created" /\ current_value = NoValue
    /\ tagged = <<>> /\ got = 0 /\ stops = 0

RangeIdle ==
    /\ range_start = <<2023, 1, 1>> /\ range_end = <<2023, 1, 1>>
    /\ range_out = <<>> /\ ranged = FALSE

(***************************************************************************)
(* get_exr_timeseries, pulled by its consumer.                             *)
(***************************************************************************)
Init ==
    /\ start_date \in StartDates
    /\ end_date \in {strftime(strptime(start_date) + d) : d \in Spans}
                    \cup {strftime(strptime(start_date) - d) : d \in 1 .. MaxSpan}
    /\ OrchIdle
    /\ PairIdle
    /\ ZipIdle
    /\ RangeIdle

\* the consumer calls next() on the generator
Pull ==
    /\ pc \in {"created", "loop", "forward"}
    /\ ~pulling
    /\ pulling' = TRUE
    /\ UNCHANGED <<start_date, end_date, pc, it, next_value, is_last_pair,
                   requests, rows, output, error>>
    /\ UNCHANGED <<pair_vars, zip_vars, range_vars>>

\* first resumption: n_cuts, the partitioner materialises its pairs and
\* zip_is_last takes its first element (or ends the stream when there is none)
Begin ==
    /\ pc = "created" /\ pulling
    /\ LET res == generate_date_pairs(start_date, end_date, NCuts(start_date, end_date))
       IN  IF res.raised # "none"
           THEN /\ pc' = "raised" /\ error' = res.raised /\ pulling' = FALSE
                /\ UNCHANGED <<it, next_value>>
           ELSE IF res.pairs = <<>>
           THEN /\ pc' = "done" /\ pulling' = FALSE
                /\ UNCHANGED <<it, next_value, error>>
           ELSE /\ next_value' = Head(res.pairs)
                /\ it' = Tail(res.pairs)
                /\ pc' = "loop"
                /\ UNCHANGED <<pulling, error>>
    /\ UNCHANGED <<start_date, end_date, is_last_pair, requests, rows, output>>
    /\ UNCHANGED <<pair_vars, zip_vars, range_vars>>

\* one turn of zip_is_last's loop, the shift of the pair's later date, the
\* assertion of get_exr_366_days and, when it passes, the GET
NextWindow ==
    /\ pc = "loop" /\ pulling
    /\ LET date_pair == next_value
           is_last   == (it = <<>>)
           from      == date_pair[1]
           to        == strftime(as_date(date_pair[2]) - DayOffset(is_last))
       IN  /\ is_last_pair' = is_last
           /\ next_value' = IF is_last THEN next_value ELSE Head(it)
           /\ it' = IF is_last THEN it ELSE Tail(it)
           /\ IF WindowFits(from, to)
              THEN /\ requests' = Append(requests, <<from, to>>)
                   /\ pc' = "requesting"
                   /\ UNCHANGED <<pulling, error>>
              ELSE /\ pc' = "raised" /\ error' = "AssertionError"
                   /\ pulling' = FALSE
                   /\ UNCHANGED requests
    /\ UNCHANGED <<start_date, end_date, rows, output>>
    /\ UNCHANGED <<pair_vars, zip_vars, range_vars>>

\* a failed fetch that is recorded but does not end the stream
RespondHTTPErrorSwallowed ==
    /\ pc = "requesting"
    /\ pc' = "forward" /\ error' = "HTTPError" /\ rows' = <<>>
    /\ UNCHANGED <<start_date, end_date, pulling, it, next_value, is_last_pair,
                   requests, output>>
    /\ UNCHANGED <<pair_vars, zip_vars, range_vars>>

\* the service answers with a non-success status: raise_for_status raises
RespondHTTPError ==
    /\ pc = "requesting"
    /\ pc' = "raised" /\ error' = "HTTPError" /\ pulling' = FALSE
    /\ UNCHANGED <<start_date, end_date, it, next_value, is_last_pair,
                   requests, rows, output>>
    /\ UNCHANGED <<pair_vars, zip_vars, range_vars>>

\* the service answers with a body that has no "rates"
RespondNoRates ==
    /\ pc = "requesting"
    /\ pc' = "raised" /\ error' = "ValueError" /\ pulling' = FALSE
    /\ UNCHANGED <<start_date, end_date, it, next_value, is_last_pair,
                   requests, rows, output>>
    /\ UNCHANGED <<pair_vars, zip_vars, range_vars>>

\* the service answers with rates
RespondRates ==
    /\ pc = "requesting"
    /\ rows' = ResponseRows(requests[Len(requests)], start_date)
    /\ pc' = "forward"
    /\ UNCHANGED <<start_date, end_date, pulling, it, next_value, is_last_pair,
                   requests, output, error>>
    /\ UNCHANGED <<pair_vars, zip_vars, range_vars>>

\* a row is handed over but the generator keeps running unasked
YieldRowKeepsRunning ==
    /\ pc = "forward" /\ pulling /\ rows # <<>>
    /\ output' = Append(output, Head(rows))
    /\ rows' = Tail(rows)
    /\ UNCHANGED <<start_date, end_date, pc, pulling, it, next_value, is_last_pair,
                   requests, error>>
    /\ UNCHANGED <<pair_vars, zip_vars, range_vars>>

\* yield ExchangeRow(...): the consumer's next() returns the row
YieldRow ==
    /\ pc = "forward" /\ pulling /\ rows # <<>>
    /\ output' = Append(output, Head(rows))
    /\ rows' = Tail(rows)
    /\ pulling' = FALSE
    /\ UNCHANGED <<start_date, end_date, pc, it, next_value, is_last_pair,
                   requests, error>>
    /\ UNCHANGED <<pair_vars, zip_vars, range_vars>>

\* the response is exhausted: zip_is_last is resumed, and returns after the
\* pair it tagged as last
WindowDone ==
    /\ pc = "forward" /\ pulling /\ rows = <<>>
    /\ IF is_last_pair
       THEN pc' = "done" /\ pulling' = FALSE
       ELSE pc' = "loop" /\ UNCHANGED pulling
    /\ UNCHANGED <<start_date, end_date, it, next_value, is_last_pair,
                   requests, rows, output, error>>
    /\ UNCHANGED <<pair_vars, zip_vars, range_vars>>

Next ==
    \/ Pull
    \/ Begin
    \/ NextWindow
    \/ RespondHTTPError
    \/ RespondNoRates
    \/ RespondRates
    \/ YieldRow
    \/ WindowDone

Spec == Init /\ [][Next]_vars

(***************************************************************************)
(* generate_item_pairs called on its own.                                  *)
(***************************************************************************)
RECURSIVE SeqsUpTo(_)
SeqsUpTo(len) ==
    IF len = 0 THEN {<<>>}
    ELSE LET shorter == SeqsUpTo(len - 1)
         IN  shorter \cup {Append(s, x) : s \in {t \in shorter : Len(t) = len - 1},
                                          x \in Items}

InitPairs ==
    /\ arg_items \in SeqsUpTo(MaxLen)
    /\ arg_n \in 0 .. MaxN
    /\ ret = Returned(<<>>)
    /\ called = FALSE
    /\ start_date = <<2023, 1, 1>> /\ end_date = <<2023, 1, 1>>
    /\ OrchIdle
    /\ ZipIdle
    /\ RangeIdle

CallPairs ==
    /\ ~called
    /\ ret' = generate_item_pairs(arg_items, arg_n)
    /\ called' = TRUE
    /\ UNCHANGED <<arg_items, arg_n>>
    /\ UNCHANGED <<orch_vars, zip_vars, range_vars>>

NextPairs == CallPairs

SpecPairs == InitPairs /\ [][NextPairs]_vars

(***************************************************************************)
(* zip_is_last called on its own, resumed by the next() of its consumer.   *)
(***************************************************************************)
InitZip ==
    /\ iterable \in SeqsUpTo(MaxLen)
    /\ zpc = "created" /\ current_value = NoValue
    /\ tagged = <<>> /\ got = 0 /\ stops = 0
    /\ start_date = <<2023, 1, 1>> /\ end_date = <<2023, 1, 1>>
    /\ OrchIdle
    /\ PairIdle
    /\ RangeIdle

\* it = iter(iterable) and the first next(it): an empty iterable ends the
\* generator at once
ZipPrime ==
    /\ zpc = "created"
    /\ IF iterable = <<>>
       THEN /\ stops' = stops + 1
            /\ zpc' = "returned"
            /\ it' = <<>>
            /\ UNCHANGED <<next_value, got>>
       ELSE /\ next_value' = Head(iterable)
            /\ it' = Tail(iterable)
            /\ got' = got + 1
            /\ zpc' = "loop"
            /\ UNCHANGED stops
    /\ UNCHANGED <<iterable, current_value, tagged>>
    /\ UNCHANGED <<start_date, end_date, pc, pulling, is_last_pair,
                   requests, rows, output, error>>
    /\ UNCHANGED <<pair_vars, range_vars>>

\* on StopIteration the generator returns without yielding current_value
ZipTurnDropsLast ==
    /\ zpc = "loop"
    /\ current_value' = next_value
    /\ IF it # <<>>
       THEN /\ next_value' = Head(it)
            /\ it' = Tail(it)
            /\ got' = got + 1
            /\ tagged' = Append(tagged, <<next_value, FALSE>>)
            /\ zpc' = "loop"
            /\ UNCHANGED stops
       ELSE /\ stops' = stops + 1
            /\ zpc' = "returned"
            /\ UNCHANGED <<next_value, it, got, tagged>>
    /\ UNCHANGED iterable
    /\ UNCHANGED <<start_date, end_date, pc, pulling, is_last_pair,
                   requests, rows, output, error>>
    /\ UNCHANGED <<pair_vars, range_vars>>

\* one turn of the loop: current_value = next_value, then next(it) decides
\* between yield (current_value, False) and yield (current_value, True)
ZipTurn ==
    /\ zpc = "loop"
    /\ current_value' = next_value
    /\ IF it # <<>>
       THEN /\ next_value' = Head(it)
            /\ it' = Tail(it)
            /\ got' = got + 1
            /\ tagged' = Append(tagged, <<next_value, FALSE>>)
            /\ zpc' = "loop"
            /\ UNCHANGED stops
       ELSE /\ stops' = stops + 1
            /\ tagged' = Append(tagged, <<next_value, TRUE>>)
            /\ zpc' = "last"
            /\ UNCHANGED <<next_value, it, got>>
    /\ UNCHANGED iterable
    /\ UNCHANGED <<start_date, end_date, pc, pulling, is_last_pair,
                   requests, rows, output, error>>
    /\ UNCHANGED <<pair_vars, range_vars>>

\* resumed after the last element, the generator asks next(it) once more
ZipReturnPullsAgain ==
    /\ zpc = "last"
    /\ zpc' = "returned"
    /\ stops' = stops + 1
    /\ UNCHANGED <<iterable, it, next_value, current_value, tagged, got>>
    /\ UNCHANGED <<start_date, end_date, pc, pulling, is_last_pair,
                   requests, rows, output, error>>
    /\ UNCHANGED <<pair_vars, range_vars>>

\* resumed after yield (current_value, True): return
ZipReturn ==
    /\ zpc = "last"
    /\ zpc' = "returned"
    /\ UNCHANGED <<iterable, it, next_value, current_value, tagged, got, stops>>
    /\ UNCHANGED <<start_date, end_date, pc, pulling, is_last_pair,
                   requests, rows, output, error>>
    /\ UNCHANGED <<pair_vars, range_vars>>

NextZip ==
    \/ ZipPrime
    \/ ZipTurn
    \/ ZipReturn

SpecZip == InitZip /\ [][NextZip]_vars

(***************************************************************************)
(* generate_date_range called on its own.                                  *)
(***************************************************************************)
InitRange ==
    /\ range_start \in RangeStarts
    /\ range_end \in {strftime(strptime(range_start) + d) : d \in 0 .. MaxRangeSpan}
                     \cup {strftime(strptime(range_start) - d) : d \in 1 .. MaxRangeSpan}
    /\ range_out = <<>> /\ ranged = FALSE
    /\ start_date = <<2023, 1, 1>> /\ end_date = <<2023, 1, 1>>
    /\ OrchIdle
    /\ PairIdle
    /\ ZipIdle

CallRange ==
    /\ ~ranged
    /\ range_out' = generate_date_range(range_start, range_end)
    /\ ranged' = TRUE
    /\ UNCHANGED <<range_start, range_end>>
    /\ UNCHANGED <<orch_vars, pair_vars, zip_vars>>

NextRange == CallRange

SpecRange == InitRange /\ [][NextRange]_vars

(***************************************************************************)
(* Vocabulary of the properties.                                           *)
(***************************************************************************)
\* start_date <= end_date
Ascending == strptime(start_date) <= strptime(end_date)

\* (end_date - start_date).days
SpanDays == strptime(end_date) - strptime(start_date)

\* the stride of the partitioner over the SpanDays + 1 dates of the range
Stride == ceil(Abs(SpanDays) + 1, NCuts(start_date, end_date))

\* the date shared by window i and window i + 1 before the shift
Boundary(i) == strptime(start_date) + i * Stride

\* the calendar dates of an ascending window
WindowDays(request) == strptime(request[1]) .. strptime(request[2])

\* some calendar date lies in both windows
Overlap(r1, r2) ==
    LET lo == IF strptime(r1[1]) >= strptime(r2[1])
              THEN strptime(r1[1]) ELSE strptime(r2[1])
        hi == IF strptime(r1[2]) <= strptime(r2[2])
              THEN strptime(r1[2]) ELSE strptime(r2[2])
    IN  lo <= hi

FetchErrors == {"HTTPError", "ValueError"}

\* the rows of the responses to the first k requests, in order
RECURSIVE RowsOfWindows(_)
RowsOfWindows(k) ==
    IF k = 0 THEN <<>>
    ELSE RowsOfWindows(k - 1) \o ResponseRows(requests[k], start_date)

(***************************************************************************)
(* Properties of get_exr_timeseries (specification Spec).                  *)
(***************************************************************************)
\* C1: for start_date <= end_date no calendar date lies inside two of the
\* requested windows, and no (date, currency) row reaches the consumer twice.
\* The newest request and the newest row are compared with every earlier one;
\* every prefix of a run is itself a reachable state, so every pair is covered.
C1_NoDateInTwoWindows ==
    Ascending =>
        /\ \A i \in 1 .. Len(requests) - 1 :
               ~Overlap(requests[i], requests[Len(requests)])
        /\ \A j \in 1 .. Len(output) - 1 : output[j] # output[Len(output)]

\* a three-window run read to its end
C1_Witness ==
    /\ Ascending /\ pc = "done"
    /\ Len(requests) = 3
    /\ Len(output) = 6 * Len(Currencies)

\* C2: for start_date <= end_date (start_date = end_date included) the dates
\* covered by the requested windows of a completed run are exactly the dates
\* generate_date_range(start_date, end_date) produces.
C2_WindowsCoverRange ==
    (Ascending /\ pc = "done") =>
        UNION {WindowDays(requests[i]) : i \in 1 .. Len(requests)}
            = LET dates == generate_date_range(start_date, end_date)
              IN  {strptime(dates[i]) : i \in 1 .. Len(dates)}

\* C3: for start_date <= end_date of any length the assertion at the top of
\* get_exr_366_days never fails.
C3_AssertionNeverFails ==
    Ascending => error # "AssertionError"

\* C4: when the fetch of window k fails, the consumer has received exactly the
\* rows of windows 1..k-1 in order and then the error: the stream has ended,
\* no row of window k was forwarded and window k is the last one requested.
C4_FailureStopsStream ==
    error \in FetchErrors =>
        /\ pc = "raised" /\ ~pulling
        /\ requests # <<>>
        /\ output = RowsOfWindows(Len(requests) - 1)

\* the second of three windows fails after the first was read
C4_Witness ==
    /\ error \in FetchErrors
    /\ NCuts(start_date, end_date) = 3
    /\ Len(requests) = 2
    /\ output = ResponseRows(requests[1], start_date)
    /\ output # <<>>

\* C5: for 0 <= (end_date - start_date).days <= 365 a completed run has issued
\* exactly one request, (start_date, end_date), with no shift.
C5_SingleWindow ==
    (Ascending /\ SpanDays <= MaxDaysPerRequest /\ pc = "done") =>
        requests = << <<start_date, end_date>> >>

\* C6: for start_date <= end_date the partitioner produces exactly n_cuts
\* sub-ranges, and a run whose fetches all succeed issues exactly n_cuts requests.
C6_WindowCount ==
    Ascending =>
        /\ pc = "loop" => Len(requests) + 1 + Len(it) = NCuts(start_date, end_date)
        /\ pc = "done" => Len(requests) = NCuts(start_date, end_date)

\* C7: for start_date <= end_date and two or more windows, request i ends the
\* day before the boundary date it shares with request i + 1, request i + 1
\* starts on that boundary date, and the final request of a completed run ends
\* on end_date.
C7_BoundaryShift ==
    (Ascending /\ Len(requests) >= 2) =>
        /\ \A i \in 1 .. Len(requests) - 1 :
               /\ strptime(requests[i][2]) = Boundary(i) - 1
               /\ strptime(requests[i + 1][1]) = Boundary(i)
        /\ pc = "done" => requests[Len(requests)][2] = end_date

\* 2023-01-01 .. 2024-06-15, 531 days, two windows
C7_Witness ==
    /\ pc = "done"
    /\ start_date = <<2023, 1, 1>> /\ end_date = <<2024, 6, 15>>
    /\ requests = << <<start_date, <<2023, 9, 23>>>>, <<<<2023, 9, 24>>, end_date>> >>

\* the first sequence is the beginning of the second
IsPrefix(a, b) == Len(a) <= Len(b) /\ \A i \in 1 .. Len(a) : a[i] = b[i]

\* C14: get_exr_timeseries is pull-driven and strictly sequential.  A request is
\* issued only while the consumer is inside next(), when no request is in
\* progress and the consumer has received every row of every earlier window; a
\* row reaches the consumer only as the return of its next(), and is the next
\* row in window order and in response order.
C14_Step ==
    /\ requests' # requests =>
           /\ pulling
           /\ pc # "requesting" /\ pc' = "requesting"
           /\ Len(requests') = Len(requests) + 1
           /\ SubSeq(requests', 1, Len(requests)) = requests
           /\ output = RowsOfWindows(Len(requests))
    /\ pc = "requesting" => requests' = requests
    /\ ~pulling => requests' = requests /\ output' = output
    /\ output' # output =>
           /\ pulling /\ ~pulling'
           /\ requests' = requests
           /\ Len(output') = Len(output) + 1
           /\ IsPrefix(output', RowsOfWindows(Len(requests)))

C14_PullDriven == [][C14_Step]_vars

\* the second request is in progress and every row of the first was received
C14_Witness ==
    /\ pc = "requesting" /\ pulling
    /\ Len(requests) = 2
    /\ output # <<>>
    /\ output = RowsOfWindows(1)

\* C16: for start_date < end_date every request is a window with from <= to,
\* the first request starts on start_date, and each request starts after the
\* one before it ends.  The newest request is compared with the one before it;
\* every prefix of a run is itself a reachable state.
C16_AscendingWindows ==
    (Ascending /\ SpanDays > 0) =>
        /\ pc = "done" => requests # <<>>
        /\ requests # <<>> =>
               LET last == requests[Len(requests)]
               IN  /\ requests[1][1] = start_date
                   /\ strptime(last[1]) <= strptime(last[2])
                   /\ Len(requests) >= 2 =>
                          /\ strptime(requests[Len(requests) - 1][2]) < strptime(last[1])
                          /\ strptime(requests[Len(requests) - 1][1]) < strptime(last[1])

\* the third request of an ascending range is being forwarded
C16_Witness ==
    /\ Ascending /\ SpanDays > 0
    /\ pc = "forward"
    /\ Len(requests) = 3
    /\ strptime(requests[2][2]) < strptime(requests[3][1])

\* a request with its two dates exchanged
Reversed(request) == <<request[2], request[1]>>

\* C17: for start_date > end_date the assertion of get_exr_366_days never
\* fails, every request has its from strictly later than its to, and every
\* non-last request ends one day beyond the boundary date on which the next
\* request starts, so that the dates the two requests span overlap.
C17_ReversedRange ==
    ~Ascending =>
        /\ error # "AssertionError"
        /\ requests # <<>> =>
               LET last == requests[Len(requests)]
               IN  /\ strptime(last[1]) > strptime(last[2])
                   /\ Len(requests) >= 2 =>
                          LET prev == requests[Len(requests) - 1]
                          IN  /\ strptime(prev[2]) = strptime(last[1]) - 1
                              /\ strptime(prev[1]) > strptime(last[1])
                              /\ Overlap(Reversed(prev), Reversed(last))

\* a reversed range of two windows read to its end
C17_Witness ==
    /\ ~Ascending /\ pc = "done"
    /\ Len(requests) = 2
    /\ strptime(requests[1][2]) = strptime(requests[2][1]) - 1

(***************************************************************************)
(* Properties of generate_item_pairs (specification SpecPairs).            *)
(***************************************************************************)
\* the first items of the pairs, then the second item of the last pair
Endpoints(pairs) ==
    IF pairs = <<>> THEN <<>>
    ELSE [i \in 1 .. Len(pairs) + 1 |->
             IF i <= Len(pairs) THEN pairs[i][1] ELSE pairs[Len(pairs)][2]]

\* the items at indices 0, s, 2s, ... and the item at the last index
SampledItems(items, n) ==
    LET s == ceil(Len(items), n)
    IN  Slice(items, s)
            \o (IF (Len(items) - 1) % s = 0 THEN <<>> ELSE <<items[Len(items)]>>)

\* C8: for an input of length >= 2 (repeated values included) and n >= 1 there is
\* at least one pair, the first pair starts with the first item and the last
\* pair ends with the item at the last index.
C8_PartitionCoverage ==
    (called /\ Len(arg_items) >= 2 /\ arg_n >= 1) =>
        /\ ret.raised = "none"
        /\ ret.pairs # <<>>
        /\ ret.pairs[1][1] = arg_items[1]
        /\ ret.pairs[Len(ret.pairs)][2] = arg_items[Len(arg_items)]

\* C9: for n >= 1 there are at most n pairs, each pair starts where the one
\* before it ends, and the endpoints are the items at indices 0, s, 2s, ...
\* with s = ceil(length / n), plus the final item.
C9_ContiguousSamples ==
    (called /\ arg_n >= 1 /\ ret.raised = "none") =>
        /\ Len(ret.pairs) <= arg_n
        /\ \A i \in 1 .. Len(ret.pairs) - 1 : ret.pairs[i][2] = ret.pairs[i + 1][1]
        /\ IF Len(SampledItems(arg_items, arg_n)) >= 2
           THEN Endpoints(ret.pairs) = SampledItems(arg_items, arg_n)
           ELSE ret.pairs = <<>>

\* C10: with n = 0, or with n >= 1 and an input of length 0 or 1, no pair is
\* yielded and no error is raised.
C10_DegenerateInputs ==
    (called /\ (arg_n = 0 \/ Len(arg_items) <= 1)) =>
        ret = Returned(<<>>)

(***************************************************************************)
(* Properties of zip_is_last (specification SpecZip).                      *)
(***************************************************************************)
\* C11: zip_is_last yields every element of its input once, in input order,
\* tagged True on the final element only; for an empty input it yields nothing.
C11_LookaheadTags ==
    /\ Len(tagged) <= Len(iterable)
    /\ \A i \in 1 .. Len(tagged) : tagged[i] = <<iterable[i], i = Len(iterable)>>
    /\ zpc = "returned" => Len(tagged) = Len(iterable)

\* a three-element input read to its end
C11_Witness ==
    /\ zpc = "returned"
    /\ Len(iterable) = 3
    /\ tagged[3] = <<iterable[3], TRUE>>
    /\ tagged[2][2] = FALSE

\* C15: when zip_is_last has yielded k elements it has taken at most k + 1 from
\* upstream (the current element and one lookahead), and next(it) is never
\* called again once it has raised StopIteration.
C15_OneLookahead ==
    /\ got <= Len(tagged) + 1
    /\ stops <= 1
    /\ stops = 1 => got = Len(iterable)
    /\ zpc = "returned" => stops = 1

\* two of four elements yielded, three taken from upstream
C15_Witness ==
    /\ Len(iterable) = 4
    /\ Len(tagged) = 2
    /\ got = 3
    /\ stops = 0

(***************************************************************************)
(* Properties of generate_date_range (specification SpecRange).            *)
(***************************************************************************)
\* a date string names a day of the calendar
IsCalendarDate(d) ==
    /\ d[2] \in 1 .. 12
    /\ d[3] >= 1
    /\ d[3] <= (IF d[2] = 2 THEN (IF IsLeap(d[1]) THEN 29 ELSE 28)
                ELSE IF d[2] \in {4, 6, 9, 11} THEN 30 ELSE 31)

C12_Witness ==
    /\ ranged
    /\ range_start = <<2024, 2, 28>> /\ range_end = <<2024, 3, 1>>
    /\ range_out = << <<2024, 2, 28>>, <<2024, 2, 29>>, <<2024, 3, 1>> >>

C13_Docstring ==
    ranged =>
        /\ strptime(range_start) > strptime(range_end) => range_out = <<>>
        /\ strptime(range_start) = strptime(range_end) => Len(range_out) = 1

====
